---------------------------- MODULE Spec2Model ----------------------------
(***************************************************************************)
(* A model of the capture-session pipeline of imsimap.py: the Record       *)
(* Parser and Live Table (update_table, IMSITableDialog.populate_table),    *)
(* the Session Store (load_scan_data, add_new_scan, save_scan_data),        *)
(* Replay (extract_params_from_logs, repeat_scan) and the Process           *)
(* Supervisor (runProcess, OutputReader.run).                               *)
(*                                                                         *)
(* Text is modelled as a sequence of one-character strings, so that         *)
(* counting, searching, splitting and stripping are computed as Python      *)
(* computes them.                                                           *)
(***************************************************************************)
EXTENDS Integers, Sequences, FiniteSets, TLC

VARIABLES
    imsi_table,        \* IMSIMAP.imsi_table: the Live Table (a QTableWidget)
    last_call,         \* observation of the last table operation: its input, the table before, its result
    now,               \* the wall clock, in seconds
    disk,              \* the file logs/scan_data.json: whether it exists and what it holds
    pc,                \* per application instance: where its save_all handler stands
    scan_data,         \* per instance: the local scan_data of add_new_scan
    handle,            \* per instance: the file object of save_scan_data (pending output, offset)
    grgsm_instance,    \* per instance: the capture configuration fc, gain, ppm
    output_text_edit,  \* per instance: the text of the Logs tab
    scan_model,        \* per instance: the items of the Scans list
    captures,          \* per instance: how many times start_capture ran
    snapshot,          \* observation: the document before and after the save last begun
    save_log,          \* observation: the saves completed so far, in order
    widgets,           \* per instance: the values of freq_slider, gain_spinbox, ppm_spinbox
    command,           \* the external command: whether it launches, and what the subprocess does
    proc,              \* the subprocess: lines still to write, the stdout pipe, its exit
    gen,               \* the runProcess generator: its position and its locals
    pending,           \* the element runProcess has yielded and the consumer has not yet taken
    yielded,           \* observation: the elements the current runProcess call has yielded
    emitted,           \* the texts emitted on OutputReader.output_signal, in order
    taken,             \* observation: the elements OutputReader.run has finished handling
    launches,          \* how often runProcess has been called
    events,            \* the slot calls posted to the GUI thread and not yet run, in order
    observed,          \* observation: the update_table calls run, and the last stop_capture
    dest,              \* the file or database under the name chosen in export_table
    exported,          \* observation of the last export_table: the table, the format, how it ended
    replay             \* observation of the last repeat_scan: what it read, how it ended; fresh until another step

tableVars == <<imsi_table, last_call>>

storeVars == <<now, disk, pc, scan_data, handle, grgsm_instance, output_text_edit,
               scan_model, captures, snapshot, save_log>>

replayVars == <<widgets, replay>>

procVars == <<command, proc, gen, pending, yielded, emitted, taken, launches>>

sessionVars == <<events, observed>>

exportVars == <<dest, exported>>

\* what the table steps leave alone, and what the store steps leave alone
exceptTable == <<storeVars, replayVars, procVars, sessionVars, exportVars>>

exceptStore == <<tableVars, replayVars, procVars, sessionVars, exportVars>>

exceptProc == <<tableVars, storeVars, replayVars, sessionVars, exportVars>>

vars == <<imsi_table, last_call, now, disk, pc, scan_data, handle, grgsm_instance,
          output_text_edit, scan_model, captures, snapshot, save_log, widgets, replay,
          command, proc, gen, pending, yielded, emitted, taken, launches,
          events, observed, dest, exported>>

(***************************************************************************)
(* Bounds of the model.                                                    *)
(***************************************************************************)
\* rows the Live Table may hold before deliveries stop
MaxRows == 2
\* lines of a stored log handed to the dialog
MaxLogLines == 2
\* fields beyond the 11 columns that a producer line may carry
MaxExtra == 1
\* the clock stops at this many seconds
MaxNow == 90
\* one step of the clock, in seconds
TickSeconds == 30
\* items the Scans list of one instance may hold before it stops saving
MaxScans == 3
\* captures one instance may start by replaying
MaxReplays == 2
\* lines the subprocess writes to its standard output before it exits
MaxOutLines == 2
\* calls of runProcess the reader thread makes before it is left alone
MaxLaunches == 2
\* lines the reader thread emits in a run of the application
MaxEmits == 2
\* stop_capture calls
MaxStops == 1
\* the export_table calls in one behaviour
MaxExports == 2

(***************************************************************************)
(* Program constants.                                                      *)
(***************************************************************************)
\* imsi_table.setColumnCount(11)
Cols == 11
\* output_line.count(';') >= 6
MinSemis == 6
\* the header marker 'CellId'
Marker == <<"C", "e", "l", "l", "I", "d">>

Whitespace == {" ", "\t", "\n", "\r"}
\* strftime('%Y-%m-%d %H:%M %Z'): the key changes once a minute
SecondsPerMinute == 60
MinutesPerHour == 60
HoursPerDay == 24
\* grgsm_livemon(fc=943.203831e6, gain=50, ppm=0)
DefaultFc == 943203831
DefaultGain == 50
DefaultPpm == 0
\* freq_slider.setMinimum(800000000), setMaximum(1990000000)
FreqMin == 800000000
FreqMax == 1990000000
\* gain_spinbox.setMinimum(0.0), setMaximum(100.0)
GainMin == 0
GainMax == 100
\* ppm_spinbox.setMinimum(-150.0), setMaximum(150.0)
PpmMin == -150
PpmMax == 150

(***************************************************************************)
(* Python str operations.                                                  *)
(***************************************************************************)
\* s.count(c) for a one-character c
Count(s, c) == Cardinality({i \in 1..Len(s) : s[i] = c})

\* sub in s
Contains(s, sub) ==
    \E i \in 1..(Len(s) - Len(sub) + 1) : SubSeq(s, i, i + Len(sub) - 1) = sub

\* index of the first c in s, 0 when there is none
FirstIndex(s, c) ==
    IF \E i \in 1..Len(s) : s[i] = c
    THEN CHOOSE i \in 1..Len(s) : s[i] = c /\ \A j \in 1..(i - 1) : s[j] # c
    ELSE 0

RECURSIVE Split(_, _)
\* s.split(c): n separators give n + 1 fields, empty fields included
Split(s, c) ==
    LET i == FirstIndex(s, c)
    IN  IF i = 0 THEN <<s>>
        ELSE <<SubSeq(s, 1, i - 1)>> \o Split(SubSeq(s, i + 1, Len(s)), c)

RECURSIVE LStrip(_)
LStrip(s) ==
    IF s # <<>> /\ Head(s) \in Whitespace THEN LStrip(Tail(s)) ELSE s

RECURSIVE RStrip(_)
RStrip(s) ==
    IF s # <<>> /\ s[Len(s)] \in Whitespace THEN RStrip(SubSeq(s, 1, Len(s) - 1)) ELSE s

\* s.strip()
Strip(s) == RStrip(LStrip(s))

RECURSIVE Join(_, _)
\* sep.join(fields)
Join(fields, sep) ==
    IF fields = <<>> THEN <<>>
    ELSE IF Len(fields) = 1 THEN fields[1]
    ELSE fields[1] \o sep \o Join(Tail(fields), sep)

(***************************************************************************)
(* QTableWidget with 11 columns.  Qt keeps the items in one vector indexed *)
(* row * columnCount + column; a cell holds no item (<<>>) or one item     *)
(* with its text (<<text>>).                                               *)
(***************************************************************************)
NoItem == <<>>

QTableWidgetItem(text) == <<text>>

\* QTableWidget() ; setRowCount(0) ; setColumnCount(11)
EmptyTable == [rows |-> 0, items |-> <<>>]

rowCount(t) == t.rows

\* insertRow(row): a row of empty cells before row `row`; refused out of range
insertRow(t, row) ==
    IF row < 0 \/ row > t.rows THEN t
    ELSE [rows  |-> t.rows + 1,
          items |-> SubSeq(t.items, 1, row * Cols)
                    \o [k \in 1..Cols |-> NoItem]
                    \o SubSeq(t.items, row * Cols + 1, Len(t.items))]

\* setItem(row, column, item): ignored when the flat index is outside the vector
setItem(t, row, column, item) ==
    LET i == row * Cols + column
    IN  IF i < 0 \/ i >= Len(t.items) THEN t
        ELSE [t EXCEPT !.items[i + 1] = item]

\* item(row, column): None outside the table
item(t, row, column) ==
    IF row \in 0..(t.rows - 1) /\ column \in 0..(Cols - 1)
    THEN t.items[row * Cols + column + 1]
    ELSE NoItem

\* item(row, col).text() if item(row, col) else ''
CellText(t, row, column) ==
    LET it == item(t, row, column)
    IN  IF it = NoItem THEN <<>> ELSE it[1]

\* the texts of one row, column 0 to 10
RowTexts(t, row) == [k \in 1..Cols |-> CellText(t, row, k - 1)]

(***************************************************************************)
(* Record Parser and Live Table.                                           *)
(***************************************************************************)
\* output_line.count(';') >= 6 and 'CellId' not in output_line
IsRecordLine(line) == Count(line, ";") >= MinSemis /\ ~Contains(line, Marker)

RECURSIVE SetRowItems(_, _, _, _)
\* for i, field in enumerate(fields): setItem(row_position, i, QTableWidgetItem(field))
SetRowItems(t, row_position, fields, i) ==
    IF fields = <<>> THEN t
    ELSE SetRowItems(setItem(t, row_position, i, QTableWidgetItem(Head(fields))),
                     row_position, Tail(fields), i + 1)

\* a parser that keeps the sequence counter as column 0
update_table_KeepFirst(t, output_line) ==
    IF IsRecordLine(output_line)
    THEN SetRowItems(insertRow(t, rowCount(t)), rowCount(t), Split(output_line, ";"), 0)
    ELSE t

\* a parser that asks for more than 6 semicolons
update_table_Strict(t, output_line) ==
    IF Count(output_line, ";") > MinSemis /\ ~Contains(output_line, Marker)
    THEN SetRowItems(insertRow(t, rowCount(t)), rowCount(t), Tail(Split(output_line, ";")), 0)
    ELSE t

\* IMSIMAP.update_table
update_table(t, output_line) ==
    IF IsRecordLine(output_line)
    THEN LET fields == Split(output_line, ";")
             row_position == rowCount(t)
         IN  SetRowItems(insertRow(t, row_position), row_position, Tail(fields), 0)
    ELSE t

RECURSIVE StripAll(_)
StripAll(fields) ==
    IF fields = <<>> THEN <<>> ELSE <<Strip(Head(fields))>> \o StripAll(Tail(fields))

\* IMSITableDialog.add_row
add_row(t, fields) ==
    LET row_position == rowCount(t)
    IN  SetRowItems(insertRow(t, row_position), row_position, StripAll(Tail(fields)), 0)

RECURSIVE PopulateLines(_, _)
PopulateLines(t, lines) ==
    IF lines = <<>> THEN t
    ELSE LET line == Head(lines)
         IN  PopulateLines(IF Count(line, ";") >= MinSemis /\ ~Contains(line, Marker)
                           THEN add_row(t, Split(line, ";"))
                           ELSE t,
                           Tail(lines))

\* IMSITableDialog.populate_table, on the dialog's empty table
populate_table(logs) == PopulateLines(EmptyTable, Split(logs, "\n"))

(***************************************************************************)
(* Inputs: producer lines and stored logs.                                 *)
(***************************************************************************)
FieldChars == <<"a", "b", "c", "d", "e", "f", "g", "h", "i", "j", "k", "l", "m", "n", "o", "p">>

\* a line of n + 1 one-letter fields, n semicolons
Plain(n) == Join([k \in 1..(n + 1) |-> <<FieldChars[k]>>], <<";">>)

\* a line of n + 1 fields padded with blanks
Spaced(n) == Join([k \in 1..(n + 1) |-> <<" ", FieldChars[k], " ">>], <<";">>)

\* the producer's header: n + 1 fields, the last one holding the marker
Header(n) == Join([k \in 1..(n + 1) |-> IF k = n + 1 THEN <<"x">> \o Marker ELSE <<FieldChars[k]>>], <<";">>)

ExampleLine ==
    <<"1", "2", ";", "1", "1", "1", ";", "2", "2", "2", ";", "3", "1", "0", "1", "7", "0", "0", "0", "0", "0", "0", "0", "0", "0", "1", ";", "U", "S", "A", ";", "V", "e", "r", "i", "z", "o", "n", ";", "V", "e", "r", "i", "z", "o", "n", ";", "3", "1", "0", ";", "1", "7", "0", ";", "1", "2", "3", "4", "5", ";", "0", "x", "1", "A", "2", "B", ";", "2", "0", "2", "4", "-", "0", "1", "-", "0", "1", " ", "1", "0", ":", "0", "0", " ", "C", "E", "T">>

ExampleRow ==
    << <<"1", "1", "1">>,
       <<"2", "2", "2">>,
       <<"3", "1", "0", "1", "7", "0", "0", "0", "0", "0", "0", "0", "0", "0", "1">>,
       <<"U", "S", "A">>,
       <<"V", "e", "r", "i", "z", "o", "n">>,
       <<"V", "e", "r", "i", "z", "o", "n">>,
       <<"3", "1", "0">>,
       <<"1", "7", "0">>,
       <<"1", "2", "3", "4", "5">>,
       <<"0", "x", "1", "A", "2", "B">>,
       <<"2", "0", "2", "4", "-", "0", "1", "-", "0", "1", " ", "1", "0", ":", "0", "0", " ", "C", "E", "T">> >>

\* the lines delivered to update_table
LineSet ==
    {Plain(n) : n \in {0, MinSemis - 1, MinSemis, Cols - 1} \cup (Cols..(Cols + MaxExtra))}
    \cup {Header(MinSemis - 1), Header(Cols), Spaced(Cols), ExampleLine, <<>>}

\* the lines a stored log is made of
LogLineSet == {Plain(MinSemis - 1), Spaced(Cols + 1), Header(Cols)}

RECURSIVE LogsOfLen(_)
LogsOfLen(n) ==
    IF n = 1 THEN LogLineSet
    ELSE {l \o <<"\n">> \o m : l \in LogsOfLen(n - 1), m \in LogLineSet}

\* stored logs: 1 to MaxLogLines lines joined by newlines
LogSet == UNION {LogsOfLen(n) : n \in 1..MaxLogLines}

(***************************************************************************)
(* The table operations as steps.                                          *)
(***************************************************************************)
NoCall == [op |-> "none", arg |-> <<>>, before |-> EmptyTable, result |-> EmptyTable]

InitTable ==
    /\ imsi_table = EmptyTable
    /\ last_call = NoCall

\* output_signal delivers one line to the slot update_table
UpdateTable(output_line) ==
    /\ rowCount(imsi_table) < MaxRows
    /\ imsi_table' = update_table(imsi_table, output_line)
    /\ last_call' = [op |-> "update_table", arg |-> output_line,
                     before |-> imsi_table, result |-> imsi_table']
    /\ UNCHANGED exceptTable

\* view_table builds an IMSITableDialog over a stored log and shows it
ViewTable(logs) ==
    /\ last_call' = [op |-> "populate_table", arg |-> logs,
                     before |-> EmptyTable, result |-> populate_table(logs)]
    /\ UNCHANGED imsi_table
    /\ UNCHANGED exceptTable

NextTable ==
    \/ \E output_line \in LineSet : UpdateTable(output_line)
    \/ \E logs \in LogSet : ViewTable(logs)


(***************************************************************************)
(* Session Store: the document logs/scan_data.json.                        *)
(*                                                                         *)
(* A JSON value is a record named after its type: [num |-> n],             *)
(* [str |-> text], [null |-> TRUE]; [absent |-> TRUE] stands for a key the  *)
(* object does not have.  The file holds the tokens json.dump writes:       *)
(* an opening brace, one token per key/value pair, a closing brace.        *)
(***************************************************************************)
Num(n) == [num |-> n]

Str(text) == [str |-> text]

Null == [null |-> TRUE]

Absent == [absent |-> TRUE]

OpenBrace == [open |-> TRUE]

CloseBrace == [close |-> TRUE]

\* the bytes of a hole left by a write beyond the end of the file
Hole == [hole |-> TRUE]

Pair(key, value) == [key |-> key, value |-> value]

IsPair(token) == DOMAIN token = {"key", "value"}

\* a dict is the sequence of its pairs in insertion order
Keys(doc) == {doc[i].key : i \in 1..Len(doc)}

\* doc.get(key, Absent)
Lookup(doc, key) ==
    IF key \in Keys(doc)
    THEN doc[CHOOSE i \in 1..Len(doc) : doc[i].key = key].value
    ELSE Absent

\* doc[key] = value
DictSet(doc, key, value) ==
    IF key \in Keys(doc)
    THEN [i \in 1..Len(doc) |-> IF doc[i].key = key THEN Pair(key, value) ELSE doc[i]]
    ELSE Append(doc, Pair(key, value))

\* an add_new_scan that stores its own pair and forgets the loaded ones
add_scan_entry_Alone(doc, key, value) == <<Pair(key, value)>>

\* add_new_scan: scan_data[formatted_time] = {...}
add_scan_entry(doc, key, value) == DictSet(doc, key, value)

\* json.dump(scan_data, f): the tokens written, in order
json_dump(doc) == <<OpenBrace>> \o doc \o <<CloseBrace>>

\* whether json.load accepts the file's content
Decodes(data) ==
    /\ Len(data) >= 2
    /\ data[1] = OpenBrace
    /\ data[Len(data)] = CloseBrace
    /\ \A i \in 2..(Len(data) - 1) : IsPair(data[i])

RECURSIVE PairsToDict(_, _)
PairsToDict(doc, pairs) ==
    IF pairs = <<>> THEN doc
    ELSE PairsToDict(DictSet(doc, Head(pairs).key, Head(pairs).value), Tail(pairs))

\* json.load(f) of a content it accepts
json_load(data) == PairsToDict(<<>>, SubSeq(data, 2, Len(data) - 1))

NoFile == [exists |-> FALSE, data |-> <<>>]

FileOf(doc) == [exists |-> TRUE, data |-> json_dump(doc)]

\* IMSIMAP.load_scan_data: the mapping, or the JSONDecodeError json.load raises
load_scan_data(file) ==
    IF ~file.exists THEN [ok |-> TRUE, doc |-> <<>>]
    ELSE IF Decodes(file.data) THEN [ok |-> TRUE, doc |-> json_load(file.data)]
    ELSE [ok |-> FALSE, doc |-> <<>>]

\* write(token) at offset pos of the file
WriteAt(data, pos, token) ==
    IF pos < Len(data) THEN [data EXCEPT ![pos + 1] = token]
    ELSE data \o [k \in 1..(pos - Len(data)) |-> Hole] \o <<token>>

(***************************************************************************)
(* Time stamps and the Logs text.                                          *)
(***************************************************************************)
Digits == <<"0", "1", "2", "3", "4", "5", "6", "7", "8", "9">>

TwoDigits(n) == <<Digits[((n \div 10) % 10) + 1], Digits[(n % 10) + 1]>>

\* strftime('%H:%M') of the clock; the date and the zone stay the same over the
\* interval modelled
FormatTime(t) ==
    TwoDigits((t \div (SecondsPerMinute * MinutesPerHour)) % HoursPerDay)
    \o <<":">> \o TwoDigits((t \div SecondsPerMinute) % MinutesPerHour)

StartingText ==
    <<"S", "t", "a", "r", "t", "i", "n", "g", " ", "I", "M", "S", "I", " ", "M", "A", "P", " ", "v", "e", "r", "s", "i", "o", "n", " ", "1", ".", "0", " ", "s", "c", "a", "n", " ", "a", "t", " ">>

CaptureStartedText ==
    <<"\n", "C", "a", "p", "t", "u", "r", "e", " ", "s", "t", "a", "r", "t", "e", "d">>

\* QTextEdit.append(text): a new paragraph at the end
TextAppend(doc, text) == IF doc = <<>> THEN text ELSE doc \o <<"\n">> \o text

\* onUpdateText: insertText at the end
TextInsert(doc, text) == doc \o text

\* the Logs text after start_capture: the start line, then print('\nCapture started')
LogAfterStart(doc, t) ==
    TextInsert(TextInsert(TextAppend(doc, StartingText \o FormatTime(t)),
                          CaptureStartedText), <<"\n">>)

(***************************************************************************)
(* save_all: add_new_scan (load, insert, save), then start_capture.        *)
(***************************************************************************)
DefaultConfig == [fc |-> DefaultFc, gain |-> DefaultGain, ppm |-> DefaultPpm]

\* the value add_new_scan stores
ScanValue(config, logs) ==
    [frequency |-> Num(config.fc), ppm |-> Num(config.ppm),
     gain |-> Num(config.gain), logs |-> Str(logs)]

\* QStandardItem(f"Scan at {formatted_time} on {frequency} Hz")
ScanItem(formatted_time, frequency) == [timestamp |-> formatted_time, frequency |-> frequency]

RECURSIVE ItemsOf(_)
\* populate_scans_tab: one item per key of the loaded document
ItemsOf(doc) ==
    IF doc = <<>> THEN <<>>
    ELSE <<ScanItem(Head(doc).key, Head(doc).value.frequency)>> \o ItemsOf(Tail(doc))

NoHandle == [buf |-> <<>>, pos |-> 0]

\* a session stored by an earlier run of the application
OldKey == <<"o", "l", "d">>

OldDoc == <<Pair(OldKey, ScanValue(DefaultConfig, <<"l", "o", "g">>))>>

\* the saves a document stands for, as entries of save_log
RECURSIVE LogOf(_)
LogOf(doc) ==
    IF doc = <<>> THEN <<>>
    ELSE <<[window |-> 0, key |-> Head(doc).key, value |-> Head(doc).value, doc |-> <<>>]>>
         \o LogOf(Tail(doc))

\* the state after IMSIMAP.__init__ of every instance in ws, over the document doc0
InitStore(ws, file) ==
    /\ now = 0
    /\ disk = file
    /\ pc = [w \in ws |-> "idle"]
    /\ scan_data = [w \in ws |-> <<>>]
    /\ handle = [w \in ws |-> NoHandle]
    /\ grgsm_instance = [w \in ws |-> DefaultConfig]
    /\ output_text_edit = [w \in ws |-> <<>>]
    /\ scan_model = [w \in ws |-> ItemsOf(load_scan_data(file).doc)]
    /\ captures = [w \in ws |-> 0]
    /\ snapshot = [before |-> load_scan_data(file).doc, after |-> load_scan_data(file).doc]
    /\ save_log = LogOf(load_scan_data(file).doc)

\* time passes
Tick ==
    /\ now + TickSeconds <= MaxNow
    /\ now' = now + TickSeconds
    /\ UNCHANGED <<disk, pc, scan_data, handle, grgsm_instance, output_text_edit,
                   scan_model, captures, snapshot, save_log>>
    /\ UNCHANGED exceptStore

\* add_new_scan up to the insertion: the item is appended to the Scans list, the
\* document is loaded and the new pair is set in the local mapping.  When
\* load_scan_data raises, the handler ends there.
AddNewScanLoad(w) ==
    /\ pc[w] = "idle"
    /\ Len(scan_model[w]) < MaxScans
    /\ LET formatted_time == FormatTime(now)
           logs == output_text_edit[w]
           loaded == load_scan_data(disk)
       IN  /\ scan_model' = [scan_model EXCEPT
                   ![w] = Append(@, ScanItem(formatted_time, Num(grgsm_instance[w].fc)))]
           /\ IF loaded.ok
              THEN /\ scan_data' = [scan_data EXCEPT
                          ![w] = add_scan_entry(loaded.doc, formatted_time,
                                                ScanValue(grgsm_instance[w], logs))]
                   /\ pc' = [pc EXCEPT ![w] = "loaded"]
              ELSE UNCHANGED <<scan_data, pc>>
    /\ UNCHANGED <<now, disk, handle, grgsm_instance, output_text_edit, captures,
                   snapshot, save_log>>
    /\ UNCHANGED exceptStore

\* save_scan_data: open('logs/scan_data.json', 'w') truncates the file
SaveOpen(w) ==
    /\ pc[w] = "loaded"
    /\ snapshot' = [before |-> load_scan_data(disk).doc, after |-> scan_data[w]]
    /\ disk' = [exists |-> TRUE, data |-> <<>>]
    /\ handle' = [handle EXCEPT ![w] = [buf |-> json_dump(scan_data[w]), pos |-> 0]]
    /\ pc' = [pc EXCEPT ![w] = "writing"]
    /\ UNCHANGED <<now, scan_data, grgsm_instance, output_text_edit, scan_model,
                   captures, save_log>>
    /\ UNCHANGED exceptStore

\* save_scan_data: json.dump writes the next piece at the file object's offset
SaveWrite(w) ==
    /\ pc[w] = "writing"
    /\ Len(handle[w].buf) > 1
    /\ disk' = [disk EXCEPT !.data = WriteAt(@, handle[w].pos, Head(handle[w].buf))]
    /\ handle' = [handle EXCEPT ![w] = [buf |-> Tail(@.buf), pos |-> @.pos + 1]]
    /\ UNCHANGED <<now, pc, scan_data, grgsm_instance, output_text_edit, scan_model,
                   captures, snapshot, save_log>>
    /\ UNCHANGED exceptStore

\* the last piece is written as the with block closes the file; save_scan_data and
\* add_new_scan return, and save_all goes on to start_capture
SaveCloseAndStart(w) ==
    /\ pc[w] = "writing"
    /\ Len(handle[w].buf) = 1
    /\ disk' = [disk EXCEPT !.data = WriteAt(@, handle[w].pos, Head(handle[w].buf))]
    /\ pc' = [pc EXCEPT ![w] = "idle"]
    /\ handle' = [handle EXCEPT ![w] = NoHandle]
    /\ scan_data' = [scan_data EXCEPT ![w] = <<>>]
    /\ output_text_edit' = [output_text_edit EXCEPT ![w] = LogAfterStart(@, now)]
    /\ captures' = [captures EXCEPT ![w] = @ + 1]
    /\ save_log' = Append(save_log,
                          [window |-> w,
                           key    |-> scan_model[w][Len(scan_model[w])].timestamp,
                           value  |-> Lookup(scan_data[w], scan_model[w][Len(scan_model[w])].timestamp),
                           doc    |-> scan_data[w]])
    /\ UNCHANGED <<now, grgsm_instance, scan_model, snapshot>>
    /\ UNCHANGED exceptStore

\* a write of save_scan_data raises (the device is full, the medium fails): the with
\* block closes the file and the exception ends save_all before start_capture
SaveFails(w) ==
    /\ pc[w] = "writing"
    /\ handle[w].buf # <<>>
    /\ pc' = [pc EXCEPT ![w] = "idle"]
    /\ handle' = [handle EXCEPT ![w] = NoHandle]
    /\ scan_data' = [scan_data EXCEPT ![w] = <<>>]
    /\ UNCHANGED <<now, disk, grgsm_instance, output_text_edit, scan_model, captures,
                   snapshot, save_log>>
    /\ UNCHANGED exceptStore

\* the application instances saving
NextStore ==
    \/ Tick
    \/ \E w \in DOMAIN pc : AddNewScanLoad(w)
    \/ \E w \in DOMAIN pc : SaveOpen(w)
    \/ \E w \in DOMAIN pc : SaveWrite(w)
    \/ \E w \in DOMAIN pc : SaveCloseAndStart(w)

\* an instance whose writes may fail
NextSaveFault ==
    \/ NextStore
    \/ \E w \in DOMAIN pc : SaveFails(w)

(***************************************************************************)
(* Replay: extract_params_from_logs and repeat_scan.                       *)
(*                                                                         *)
(* The numbers of the model are whole: a frequency in Hz, a gain and a ppm  *)
(* without fraction.  A string is numeric for float() when it is decimal    *)
(* digits with an optional sign and an optional fraction, and for int()     *)
(* when it has no fraction; exponents, inf and nan are not among the        *)
(* stored values of the model.                                             *)
(***************************************************************************)
IsDigits(s) == s # <<>> /\ \A i \in 1..Len(s) : \E d \in 1..10 : Digits[d] = s[i]

DigitValue(c) == (CHOOSE d \in 1..10 : Digits[d] = c) - 1

RECURSIVE DigitsValue(_)
DigitsValue(s) ==
    IF s = <<>> THEN 0 ELSE 10 * DigitsValue(SubSeq(s, 1, Len(s) - 1)) + DigitValue(s[Len(s)])

Unsigned(t) == IF t # <<>> /\ t[1] \in {"+", "-"} THEN Tail(t) ELSE t

Signed(t, n) == IF t # <<>> /\ t[1] = "-" THEN 0 - n ELSE n

\* the integer a stripped text denotes, or ValueError
IntOf(t) ==
    IF IsDigits(Unsigned(t)) THEN [ok |-> TRUE, value |-> Signed(t, DigitsValue(Unsigned(t)))]
    ELSE [ok |-> FALSE, value |-> 0]

\* int(text): the number, or ValueError
ParseInt(text) == IntOf(Strip(text))

\* the number a stripped text with the digits `whole` before and `frac` after its
\* point denotes, or ValueError
FloatOf(t, whole, frac) ==
    IF /\ whole = <<>> \/ IsDigits(whole)
       /\ frac = <<>> \/ IsDigits(frac)
       /\ whole # <<>> \/ frac # <<>>
    THEN [ok |-> TRUE, value |-> Signed(t, DigitsValue(whole))]
    ELSE [ok |-> FALSE, value |-> 0]

\* the unsigned text before and after its first point
BeforePoint(body, dot) == IF dot = 0 THEN body ELSE SubSeq(body, 1, dot - 1)

AfterPoint(body, dot) == IF dot = 0 THEN <<>> ELSE SubSeq(body, dot + 1, Len(body))

SplitAtPoint(t, body, dot) == FloatOf(t, BeforePoint(body, dot), AfterPoint(body, dot))

FloatOfText(t, body) == SplitAtPoint(t, body, FirstIndex(body, "."))

FloatOfStripped(t) == FloatOfText(t, Unsigned(t))

\* float(text): the number (its whole part), or ValueError
ParseFloat(text) == FloatOfStripped(Strip(text))

IsNum(v) == DOMAIN v = {"num"}

IsStr(v) == DOMAIN v = {"str"}

\* the value a parse of a string gives
Parsed(p) == IF p.ok THEN [ok |-> TRUE, value |-> Num(p.value)] ELSE [ok |-> FALSE, value |-> Null]

\* int(v) if v is not None else None; ok is FALSE when int() raises ValueError
ToInt(v) ==
    IF v = Null THEN [ok |-> TRUE, value |-> Null]
    ELSE IF IsNum(v) THEN [ok |-> TRUE, value |-> v]
    ELSE Parsed(ParseInt(v.str))

\* float(v) if v is not None else None; ok is FALSE when float() raises ValueError
ToFloat(v) ==
    IF v = Null THEN [ok |-> TRUE, value |-> Null]
    ELSE IF IsNum(v) THEN [ok |-> TRUE, value |-> v]
    ELSE Parsed(ParseFloat(v.str))

NoneTriple == [raised |-> FALSE, frequency |-> Null, gain |-> Null, ppm |-> Null]

\* what the three conversions give when each is put in place of one that failed
Lenient(f, g, p) ==
    [raised |-> FALSE,
     frequency |-> IF f.ok THEN f.value ELSE Num(DefaultFc),
     gain |-> IF g.ok THEN g.value ELSE Num(DefaultGain),
     ppm |-> IF p.ok THEN p.value ELSE Num(DefaultPpm)]

\* return frequency, gain, ppm; (None, None, None) when a conversion raised
Converted(f, g, p) ==
    IF f.ok /\ g.ok /\ p.ok
    THEN [raised |-> FALSE, frequency |-> f.value, gain |-> g.value, ppm |-> p.value]
    ELSE NoneTriple

\* an extraction that hands back whatever it could convert
extract_params_from_logs_Partial(logs) ==
    IF Absent \in {logs.frequency, logs.gain, logs.ppm} THEN [NoneTriple EXCEPT !.raised = TRUE]
    ELSE Lenient(ToInt(logs.frequency), ToFloat(logs.gain), ToFloat(logs.ppm))

\* IMSIMAP.extract_params_from_logs: the triple; raised when logs[...] raises KeyError,
\* which the function does not catch; (None, None, None) when a conversion raises
extract_params_from_logs(logs) ==
    IF Absent \in {logs.frequency, logs.gain, logs.ppm} THEN [NoneTriple EXCEPT !.raised = TRUE]
    ELSE Converted(ToInt(logs.frequency), ToFloat(logs.gain), ToFloat(logs.ppm))

\* scan_data.get(timestamp, {}): a session without any key when the timestamp is not stored
NoSession == [frequency |-> Absent, ppm |-> Absent, gain |-> Absent, logs |-> Absent]

SessionOf(doc, timestamp) ==
    IF timestamp \in Keys(doc) THEN Lookup(doc, timestamp) ELSE NoSession

Clamp(v, lo, hi) == IF v < lo THEN lo ELSE IF v > hi THEN hi ELSE v

\* IMSIMAP.set_params_in_context
set_params_in_context(config, frequency, gain, ppm) ==
    [config EXCEPT !.fc = frequency, !.gain = gain, !.ppm = ppm]

\* setValue of the three widgets: each keeps the value within its range
WidgetsAfter(frequency, gain, ppm) ==
    [freq_slider  |-> Clamp(frequency, FreqMin, FreqMax),
     gain_spinbox |-> Clamp(gain, GainMin, GainMax),
     ppm_spinbox  |-> Clamp(ppm, PpmMin, PpmMax)]

\* the capture configuration after the valueChanged slots of the spin boxes
\* (set_gain_in_grgsm, set_ppm_in_grgsm) have handed over a changed value; the slot of
\* the slider retunes the source and leaves fc alone
AfterSlots(config, wid, after) ==
    [widgets |-> after,
     config  |-> [config EXCEPT
                    !.gain = IF after.gain_spinbox # wid.gain_spinbox
                             THEN after.gain_spinbox ELSE @,
                    !.ppm  = IF after.ppm_spinbox # wid.ppm_spinbox
                             THEN after.ppm_spinbox ELSE @]]

\* IMSIMAP.update_spinboxes
update_spinboxes(config, wid, frequency, gain, ppm) ==
    AfterSlots(config, wid, WidgetsAfter(frequency, gain, ppm))

\* repeat_scan after update_spinboxes: start_capture
Started(upd) ==
    [error |-> FALSE, config |-> upd.config, widgets |-> upd.widgets, started |-> TRUE]

\* repeat_scan over the extracted parameters: the error box when it failed before or
\* one of them is None, else set_params_in_context, update_spinboxes, start_capture
ApplyParams(config, wid, failed, params) ==
    IF \/ failed
       \/ params.raised
       \/ params.frequency = Null \/ params.gain = Null \/ params.ppm = Null
    THEN [error |-> TRUE, config |-> config, widgets |-> wid, started |-> FALSE]
    ELSE Started(update_spinboxes(
             set_params_in_context(config, params.frequency.num, params.gain.num,
                                   params.ppm.num),
             wid, params.frequency.num, params.gain.num, params.ppm.num))

\* the timestamp repeat_scan reads from the current item; none without a current item
SelectedTimestamp(w, selected) ==
    IF selected = 0 THEN <<>> ELSE scan_model[w][selected].timestamp

\* the session repeat_scan looks up in the loaded document
SelectedSession(selected, loaded, timestamp) ==
    IF selected = 0 \/ ~loaded.ok THEN NoSession ELSE SessionOf(loaded.doc, timestamp)

ReplayOf(config, wid, selected, loaded, session) ==
    ApplyParams(config, wid, selected = 0 \/ ~loaded.ok, extract_params_from_logs(session))

ReplayOver(config, wid, selected, loaded, timestamp) ==
    ReplayOf(config, wid, selected, loaded, SelectedSession(selected, loaded, timestamp))

\* the outcome of repeat_scan over the selected item and the file: the state it
\* leaves and whether it ended in the error box
RepeatOutcome(w, selected) ==
    ReplayOver(grgsm_instance[w], widgets[w], selected, load_scan_data(disk),
               SelectedTimestamp(w, selected))

\* the stored session a repeat_scan reads
ReplayedSession(w, selected) ==
    SelectedSession(selected, load_scan_data(disk), SelectedTimestamp(w, selected))

\* the file when a replay stores a session under a key
WrittenBack(file, loaded, key, value) ==
    IF ~loaded.ok THEN file ELSE FileOf(DictSet(loaded.doc, key, value))

\* a replay that stores the parameters it applied back under the replayed key
FileAfterReplay_WriteBack(file, w, selected) ==
    IF selected = 0 THEN file
    ELSE WrittenBack(file, load_scan_data(file), SelectedTimestamp(w, selected),
                     ScanValue(grgsm_instance[w], output_text_edit[w]))

\* what a repeat_scan writes to the file: nothing
FileAfterReplay(file, w, selected) == file

NoReplay ==
    [count |-> 0, fresh |-> FALSE, selected |-> 0, session |-> NoSession, error |-> FALSE,
     config_before |-> DefaultConfig, widgets_before |-> WidgetsAfter(DefaultFc, DefaultGain, DefaultPpm),
     captures_before |-> 0, log_before |-> <<>>, file_before |-> NoFile,
     file_first |-> NoFile, streak |-> 0]

\* the widgets after IMSIMAP.__init__
InitReplay(ws) ==
    /\ widgets = [w \in ws |-> WidgetsAfter(DefaultFc, DefaultGain, DefaultPpm)]
    /\ replay = NoReplay

\* repeat_scan with the outcome `out` over the stored session `session`
RepeatScanWith(w, selected, out, session) ==
    /\ grgsm_instance' = [grgsm_instance EXCEPT ![w] = out.config]
    /\ widgets' = [widgets EXCEPT ![w] = out.widgets]
    /\ captures' = [captures EXCEPT ![w] = IF out.started THEN @ + 1 ELSE @]
    /\ output_text_edit' = [output_text_edit EXCEPT
            ![w] = IF out.started THEN LogAfterStart(@, now) ELSE @]
    /\ disk' = FileAfterReplay(disk, w, selected)
    /\ replay' = [count |-> replay.count + 1, fresh |-> TRUE, selected |-> selected,
                  session |-> session, error |-> out.error,
                  config_before |-> grgsm_instance[w],
                  widgets_before |-> widgets[w],
                  captures_before |-> captures[w],
                  log_before |-> output_text_edit[w],
                  file_before |-> disk,
                  file_first |-> IF replay.count = 0 THEN disk ELSE replay.file_first,
                  streak |-> IF out.error THEN 0
                             ELSE IF replay.selected = selected /\ ~replay.error
                                  THEN replay.streak + 1 ELSE 1]

\* IMSIMAP.repeat_scan on the item `selected` of the Scans list (0: no current item)
RepeatScan(w, selected) ==
    /\ pc[w] = "idle"
    /\ replay.count < MaxReplays
    /\ RepeatScanWith(w, selected, RepeatOutcome(w, selected), ReplayedSession(w, selected))
    /\ UNCHANGED <<now, pc, scan_data, handle, scan_model, snapshot, save_log>>
    /\ UNCHANGED <<tableVars, procVars, sessionVars, exportVars>>

\* the user sets the gain spin box to another value: valueChanged runs set_gain_in_grgsm
SetGainInGrgsm(w, value) ==
    /\ pc[w] = "idle"
    /\ value # widgets[w].gain_spinbox
    /\ widgets' = [widgets EXCEPT ![w].gain_spinbox = value]
    /\ grgsm_instance' = [grgsm_instance EXCEPT ![w].gain = value]
    /\ replay' = [replay EXCEPT !.fresh = FALSE]
    /\ UNCHANGED <<now, disk, pc, scan_data, handle, output_text_edit, scan_model,
                   captures, snapshot, save_log>>
    /\ UNCHANGED <<tableVars, procVars, sessionVars, exportVars>>

NextReplay ==
    \/ \E w \in DOMAIN pc : \E selected \in 0..Len(scan_model[w]) : RepeatScan(w, selected)
    \/ \E w \in DOMAIN pc : \E value \in {GainMin, GainMax} : SetGainInGrgsm(w, value)

\* the values a stored session may hold for frequency, gain and ppm
FrequencyValues ==
    {Absent, Null, Num(900000000), Str(<<"9", "0", "0", "0", "0", "0", "0", "0", "0">>),
     Str(<<"9", "0", ".", "0">>), Str(<<"a", "b", "c">>)}

GainValues ==
    {Absent, Null, Num(40), Str(<<"4", "0", ".", "0">>), Str(<<"1", "2", "0">>), Str(<<"h", "i", "g", "h">>), Str(<<>>)}

PpmValues == {Absent, Null, Num(5), Str(<<"-", "7">>), Str(<<"1", "e">>)}

StoredSessions ==
    {[frequency |-> f, ppm |-> p, gain |-> g, logs |-> Str(<<"l", "o", "g">>)] :
        f \in FrequencyValues, g \in GainValues, p \in PpmValues}

(***************************************************************************)
(* The process supervisor: runProcess and OutputReader.run.                *)
(*                                                                         *)
(* A bytes object is a sequence of bytes, each byte the character it       *)
(* encodes, InvalidByte standing for a byte that is not valid UTF-8.  The   *)
(* elements runProcess yields are bytes (a line read from stdout) or str    *)
(* (the two lines it makes up itself).                                     *)
(***************************************************************************)
InvalidByte == "<ff>"

Bytes(b) == [bytes |-> b]

IsBytes(e) == DOMAIN e = {"bytes"}

\* bytes.decode('utf-8'): the text, or UnicodeDecodeError
Decode(b) == [ok |-> \A i \in 1..Len(b) : b[i] # InvalidByte, text |-> b]

\* bytes.decode('utf-8', 'ignore'): the text without the bytes that do not decode
DecodeIgnore(b) == SelectSeq(b, LAMBDA c : c # InvalidByte)

ErrorPrefix == <<"E", "r", "r", "o", "r", ":", " ">>

ExceptionPrefix == <<"E", "x", "c", "e", "p", "t", "i", "o", "n", ":", " ">>

\* str(e) of the exception Popen raises for a command that cannot be started
LaunchErrorText == <<"E", "N", "O", "E", "N", "T">>

\* a runProcess that reports the error stream of every exit
AfterExit_AnyExit(retcode, stderr) ==
    LET err == Strip(DecodeIgnore(stderr))
    IN  IF err # <<>> THEN <<Str(ErrorPrefix \o err)>> ELSE <<>>

\* runProcess once poll() has returned an exit code: what it still yields before break
AfterExit(retcode, stderr) ==
    LET err == Strip(DecodeIgnore(stderr))
    IN  IF retcode # 0 /\ err # <<>> THEN <<Str(ErrorPrefix \o err)>> ELSE <<>>

\* a runProcess without its except clause: the exception of Popen leaves the generator
OnLaunchFailure_Propagate(description) == [pc |-> "raised", element |-> <<>>]

\* runProcess when Popen raises: except Exception as e: yield f"Exception: {e}"
OnLaunchFailure(description) ==
    [pc |-> "after_exception", element |-> <<Str(ExceptionPrefix \o description)>>]

\* OutputReader.run: decoded_line of an element; a str has no decode, and the
\* AttributeError is not the UnicodeDecodeError the inner try catches
DecodedLine(line) ==
    IF IsBytes(line)
    THEN [raised |-> FALSE,
          text |-> IF Decode(line.bytes).ok THEN Strip(Decode(line.bytes).text)
                   ELSE Strip(DecodeIgnore(line.bytes))]
    ELSE [raised |-> TRUE, text |-> <<>>]

NoProcess == [started |-> FALSE, todo |-> <<>>, pipe |-> <<>>, exited |-> FALSE]

NoRetcode == <<>>

FreshGenerator == [pc |-> "start", retcode |-> NoRetcode]

InitProc(commands) ==
    /\ command \in commands
    /\ proc = NoProcess
    /\ gen = FreshGenerator
    /\ pending = <<>>
    /\ yielded = <<>>
    /\ emitted = <<>>
    /\ taken = <<>>
    /\ launches = 0

\* the subprocess writes its next line to standard output
ProcWrite ==
    /\ proc.todo # <<>>
    /\ ~proc.exited
    /\ proc' = [proc EXCEPT !.todo = Tail(@), !.pipe = Append(@, Head(proc.todo))]
    /\ UNCHANGED <<command, gen, pending, yielded, emitted, taken, launches>>
    /\ UNCHANGED exceptProc

\* the subprocess exits: both pipes are closed at its end
ProcExit ==
    /\ proc.started
    /\ proc.todo = <<>>
    /\ ~proc.exited
    /\ proc' = [proc EXCEPT !.exited = TRUE]
    /\ UNCHANGED <<command, gen, pending, yielded, emitted, taken, launches>>
    /\ UNCHANGED exceptProc

\* runProcess: subprocess.Popen(...) starts the command
PopenStarts ==
    /\ gen.pc = "start"
    /\ command.launchable
    /\ proc' = [started |-> TRUE, todo |-> command.script, pipe |-> <<>>, exited |-> FALSE]
    /\ gen' = [gen EXCEPT !.pc = "poll"]
    /\ launches' = launches + 1
    /\ UNCHANGED <<command, pending, yielded, emitted, taken>>
    /\ UNCHANGED exceptProc

\* runProcess: subprocess.Popen(...) raises
PopenRaises ==
    /\ gen.pc = "start"
    /\ ~command.launchable
    /\ LET out == OnLaunchFailure(LaunchErrorText)
       IN  /\ gen' = [gen EXCEPT !.pc = out.pc]
           /\ pending' = out.element
           /\ yielded' = yielded \o out.element
    /\ launches' = launches + 1
    /\ UNCHANGED <<command, proc, emitted, taken>>
    /\ UNCHANGED exceptProc

\* runProcess: retcode = p.poll()
Poll ==
    /\ gen.pc = "poll"
    /\ gen' = [gen EXCEPT !.pc = "readline",
                          !.retcode = IF proc.exited THEN <<command.retcode>> ELSE NoRetcode]
    /\ UNCHANGED <<command, proc, pending, yielded, emitted, taken, launches>>
    /\ UNCHANGED exceptProc

\* runProcess: line = p.stdout.readline(); yield line.  readline waits for a line
\* and returns b'' at the end of the stream
ReadlineYield ==
    /\ gen.pc = "readline"
    /\ proc.pipe # <<>> \/ proc.exited
    /\ LET line == IF proc.pipe # <<>> THEN Head(proc.pipe) ELSE <<>>
       IN  /\ pending' = <<Bytes(line)>>
           /\ yielded' = Append(yielded, Bytes(line))
    /\ proc' = [proc EXCEPT !.pipe = IF @ # <<>> THEN Tail(@) ELSE @]
    /\ gen' = [gen EXCEPT !.pc = "after_line"]
    /\ UNCHANGED <<command, emitted, taken, launches>>
    /\ UNCHANGED exceptProc

\* runProcess resumed after yield line with retcode None: sleep(0.1), next round
Sleep ==
    /\ gen.pc = "after_line"
    /\ pending = <<>>
    /\ gen.retcode = NoRetcode
    /\ gen' = [gen EXCEPT !.pc = "poll"]
    /\ UNCHANGED <<command, proc, pending, yielded, emitted, taken, launches>>
    /\ UNCHANGED exceptProc

\* runProcess resumed after yield line with an exit code: the Error line, or break
CheckExit ==
    /\ gen.pc = "after_line"
    /\ pending = <<>>
    /\ gen.retcode # NoRetcode
    /\ LET out == AfterExit(gen.retcode[1], command.stderr)
       IN  /\ pending' = out
           /\ yielded' = yielded \o out
           /\ gen' = [gen EXCEPT !.pc = IF out = <<>> THEN "done" ELSE "after_error"]
    /\ UNCHANGED <<command, proc, emitted, taken, launches>>
    /\ UNCHANGED exceptProc

\* runProcess resumed after one of its own lines: break, or the end of the except clause
Return ==
    /\ gen.pc \in {"after_error", "after_exception"}
    /\ pending = <<>>
    /\ gen' = [gen EXCEPT !.pc = "done"]
    /\ UNCHANGED <<command, proc, pending, yielded, emitted, taken, launches>>
    /\ UNCHANGED exceptProc

\* a caller that iterates runProcess to its end takes the next element
TakeNext ==
    /\ pending # <<>>
    /\ pending' = <<>>
    /\ UNCHANGED <<command, proc, gen, yielded, emitted, taken, launches>>
    /\ UNCHANGED exceptProc

\* OutputReader.run: the body of the for loop over an element.  An exception of the
\* body leaves the for loop, which closes the generator, and is passed over by the
\* outer except
HandleLine ==
    /\ pending # <<>>
    /\ LET line == pending[1]
           decoded == DecodedLine(line)
       IN  /\ taken' = Append(taken, line)
           /\ emitted' = IF ~decoded.raised /\ decoded.text # <<>>
                            /\ ~Contains(decoded.text, Marker)
                         THEN Append(emitted, decoded.text) ELSE emitted
           /\ gen' = IF decoded.raised THEN [gen EXCEPT !.pc = "done"] ELSE gen
    /\ pending' = <<>>
    /\ UNCHANGED <<command, proc, yielded, launches>>
    /\ UNCHANGED exceptProc

\* OutputReader.run: while True, the next call of runProcess(self.command)
Relaunch ==
    /\ gen.pc = "done"
    /\ pending = <<>>
    /\ launches < MaxLaunches
    /\ gen' = FreshGenerator
    /\ proc' = NoProcess
    /\ yielded' = <<>>
    /\ UNCHANGED <<command, pending, emitted, taken, launches>>
    /\ UNCHANGED exceptProc

NextRunProcess ==
    \/ ProcWrite
    \/ ProcExit
    \/ PopenStarts
    \/ PopenRaises
    \/ Poll
    \/ ReadlineYield
    \/ Sleep
    \/ CheckExit
    \/ Return
    \/ TakeNext

\* under OutputReader.run a generator that has yielded one of its own lines is never
\* resumed: the element raises in the loop body and the generator is closed
NextReader ==
    \/ ProcWrite
    \/ ProcExit
    \/ PopenStarts
    \/ PopenRaises
    \/ Poll
    \/ ReadlineYield
    \/ Sleep
    \/ CheckExit
    \/ HandleLine
    \/ Relaunch

\* the lines a subprocess may write, each with its line end
OutLines ==
    {<<"x", "\n">>, <<" ", "\n">>, Marker \o <<"\n">>, <<InvalidByte, "y", "\n">>}

RECURSIVE ScriptsOfLen(_)
ScriptsOfLen(n) ==
    IF n = 0 THEN {<<>>}
    ELSE {Append(sc, l) : sc \in ScriptsOfLen(n - 1), l \in OutLines}

Scripts == UNION {ScriptsOfLen(n) : n \in 0..MaxOutLines}

\* what a subprocess may leave on its error stream
ErrTexts == {<<>>, <<" ", "\n">>, <<"b", "o", "o", "m", "\n">>}

NoCommand == [launchable |-> FALSE, script |-> <<>>, retcode |-> 0, stderr |-> <<>>]

Commands ==
    {NoCommand} \cup
    {[launchable |-> TRUE, script |-> sc, retcode |-> rc, stderr |-> err] :
        sc \in Scripts, rc \in {0, 1}, err \in ErrTexts}

(***************************************************************************)
(* The consumer side of the pipeline: the slots output_signal is connected  *)
(* to (output_text_edit.append, then update_table) run in the GUI thread,   *)
(* one posted call after the other and never inside another handler;        *)
(* stop_capture.                                                           *)
(***************************************************************************)
CaptureStoppedText ==
    <<"\n", "C", "a", "p", "t", "u", "r", "e", " ", "s", "t", "o", "p", "p", "e", "d">>

\* the calls one emit posts: one per connection, in the order of the connects
PostedBy(line) == <<[slot |-> "append", line |-> line], [slot |-> "update_table", line |-> line]>>

\* a GUI thread that runs the newest posted call first
Dispatch_Newest(queue) == [event |-> queue[Len(queue)], rest |-> SubSeq(queue, 1, Len(queue) - 1)]

\* the GUI thread takes the oldest posted call
Dispatch(queue) == [event |-> Head(queue), rest |-> Tail(queue)]

NoStop == [updates |-> 0, stops |-> 0, run |-> 0, log_at_stop |-> <<>>,
           proc_started |-> FALSE, proc_exited |-> FALSE]

InitSession ==
    /\ events = <<>>
    /\ observed = NoStop

\* OutputReader.run emits a decoded line that passed its test
WorkerEmits(line) ==
    /\ Len(emitted) < MaxEmits
    /\ emitted' = Append(emitted, line)
    /\ events' = events \o PostedBy(line)
    /\ UNCHANGED <<command, proc, gen, pending, yielded, taken, launches>>
    /\ UNCHANGED <<tableVars, storeVars, replayVars, exportVars, observed>>

\* the GUI thread runs a posted output_text_edit.append(line)
DeliverAppend ==
    /\ pc[1] = "idle"
    /\ events # <<>>
    /\ Dispatch(events).event.slot = "append"
    /\ output_text_edit' = [output_text_edit EXCEPT
            ![1] = TextAppend(@, Dispatch(events).event.line)]
    /\ events' = Dispatch(events).rest
    /\ UNCHANGED <<now, disk, pc, scan_data, handle, grgsm_instance, scan_model,
                   captures, snapshot, save_log>>
    /\ UNCHANGED <<tableVars, replayVars, procVars, exportVars, observed>>

\* the GUI thread runs a posted update_table(line)
DeliverUpdate ==
    /\ pc[1] = "idle"
    /\ events # <<>>
    /\ Dispatch(events).event.slot = "update_table"
    /\ imsi_table' = update_table(imsi_table, Dispatch(events).event.line)
    /\ events' = Dispatch(events).rest
    /\ observed' = [observed EXCEPT !.updates = @ + 1]
    /\ UNCHANGED <<last_call, storeVars, replayVars, procVars, exportVars>>

\* IMSIMAP.stop_capture: the flowgraph is stopped and waited for, then
\* print("\nCapture stopped")
StopCapture ==
    /\ pc[1] = "idle"
    /\ observed.stops < MaxStops
    /\ output_text_edit' = [output_text_edit EXCEPT
            ![1] = TextInsert(TextInsert(@, CaptureStoppedText), <<"\n">>)]
    /\ observed' = [observed EXCEPT !.stops = @ + 1,
                                  !.run = captures[1],
                                  !.log_at_stop = output_text_edit[1],
                                  !.proc_started = proc.started,
                                  !.proc_exited = proc.exited]
    /\ UNCHANGED <<now, disk, pc, scan_data, handle, grgsm_instance, scan_model,
                   captures, snapshot, save_log>>
    /\ UNCHANGED <<tableVars, replayVars, procVars, exportVars, events>>

\* the decoded lines the reader emits: stripped, not empty, without the marker
EmitLines ==
    {Plain(MinSemis), Strip(Spaced(MinSemis)), Plain(MinSemis - 1)}

\* one window: the reader's lines arrive while the user saves, starts and stops
NextSession ==
    \/ \E line \in EmitLines : WorkerEmits(line)
    \/ DeliverAppend
    \/ DeliverUpdate
    \/ AddNewScanLoad(1)
    \/ SaveOpen(1)
    \/ SaveWrite(1)
    \/ SaveCloseAndStart(1)
    \/ StopCapture

\* the reader's lines are delivered to the two slots; the user may stop the capture
NextDelivery ==
    \/ \E line \in EmitLines : WorkerEmits(line)
    \/ DeliverAppend
    \/ DeliverUpdate
    \/ StopCapture

\* OutputReader.run over runProcess while the user stops the capture
NextStop ==
    \/ ProcWrite
    \/ ProcExit
    \/ PopenStarts
    \/ PopenRaises
    \/ Poll
    \/ ReadlineYield
    \/ Sleep
    \/ CheckExit
    \/ HandleLine
    \/ Relaunch
    \/ StopCapture

(***************************************************************************)
(* export_table.                                                           *)
(***************************************************************************)
\* header_labels, set on imsi_table by setHorizontalHeaderLabels
header_labels ==
    << <<"T", "M", "S", "I", "-", "1">>, <<"T", "M", "S", "I", "-", "2">>,
       <<"I", "M", "S", "I">>, <<"C", "o", "u", "n", "t", "r", "y">>,
       <<"B", "r", "a", "n", "d">>, <<"O", "p", "e", "r", "a", "t", "o", "r">>,
       <<"M", "C", "C">>, <<"M", "N", "C">>, <<"L", "A", "C">>, Marker,
       <<"T", "i", "m", "e", "s", "t", "a", "m", "p">> >>

\* csv.writer defaults: the characters that make QUOTE_MINIMAL quote a field
CsvSpecial == {",", "\"", "\r", "\n"}

RECURSIVE DoubleQuotes(_)
\* doublequote: a quote character inside a quoted field is written twice
DoubleQuotes(text) ==
    IF text = <<>> THEN <<>>
    ELSE (IF Head(text) = "\"" THEN <<"\"", "\"">> ELSE <<Head(text)>>)
         \o DoubleQuotes(Tail(text))

\* one field as csv.writer writes it
CsvField(text) ==
    IF \E i \in 1..Len(text) : text[i] \in CsvSpecial
    THEN <<"\"">> \o DoubleQuotes(text) \o <<"\"">>
    ELSE text

\* writer.writerow(fields) on a file opened with newline=''
writerow(fields) ==
    Join([k \in 1..Len(fields) |-> CsvField(fields[k])], <<",">>) \o <<"\r", "\n">>

\* txt_file.write('\t'.join(fields) + '\n')
TabLine(fields) == Join(fields, <<"\t">>) \o <<"\n">>

\* one row of the file named *.csv or *.txt
RowText(ext, fields) == IF ext = "csv" THEN writerow(fields) ELSE TabLine(fields)

RECURSIVE DataText(_, _, _)
\* for row in range(k): the rows 0 .. k - 1 of the table, written in order
DataText(ext, t, k) ==
    IF k = 0 THEN <<>>
    ELSE DataText(ext, t, k - 1) \o RowText(ext, RowTexts(t, k - 1))

\* the header row, then k data rows
FileText(ext, t, k) == RowText(ext, header_labels) \o DataText(ext, t, k)

\* CREATE TABLE IF NOT EXISTS observations(...): the columns in order, with the
\* affinity SQLite derives from the declared type (datetime: NUMERIC)
Schema ==
    << [name |-> "stamp", affinity |-> "numeric"],
       [name |-> "tmsi1", affinity |-> "text"],
       [name |-> "tmsi2", affinity |-> "text"],
       [name |-> "imsi", affinity |-> "text"],
       [name |-> "imsicountry", affinity |-> "text"],
       [name |-> "imsibrand", affinity |-> "text"],
       [name |-> "imsioperator", affinity |-> "text"],
       [name |-> "mcc", affinity |-> "integer"],
       [name |-> "mnc", affinity |-> "integer"],
       [name |-> "lac", affinity |-> "integer"],
       [name |-> "cell", affinity |-> "integer"] >>

ColumnNames == {Schema[k].name : k \in 1..Len(Schema)}

\* the position of a column in the INSERT's column list, which is the schema's order
Position(name) == CHOOSE k \in 1..Len(Schema) : Schema[k].name = name

\* SQLite column affinity on a bound value: NULL stays NULL, a TEXT column keeps the
\* text, a NUMERIC or INTEGER column turns a text that is a well-formed integer
\* (blanks around it allowed) into the number and keeps any other text as text
Affinity(kind, value) ==
    IF value = Null \/ kind = "text" THEN value
    ELSE IF ParseInt(value.str).ok THEN Num(ParseInt(value.str).value)
    ELSE value

\* data = [item(row, col).text() if item(row, col) else None for col in range(11)]
BoundValues(t, row) ==
    [k \in 1..Cols |-> IF item(t, row, k - 1) = NoItem THEN Null
                       ELSE Str(item(t, row, k - 1)[1])]

\* INSERT INTO observations (stamp, ..., cell) VALUES (?, ..., ?) with `data`
InsertRow(data) ==
    [name \in ColumnNames |-> Affinity(Schema[Position(name)].affinity, data[Position(name)])]

RECURSIVE InsertedRows(_, _)
\* for row in range(k): one INSERT per table row
InsertedRows(t, k) ==
    IF k = 0 THEN <<>>
    ELSE Append(InsertedRows(t, k - 1), InsertRow(BoundValues(t, k - 1)))

\* nothing under the chosen name
NoDest == [kind |-> "none", text |-> <<>>, table |-> FALSE, rows |-> <<>>]

\* a text file under the chosen name, from an earlier export
OldFile == [kind |-> "text", text |-> <<"o", "l", "d", "\n">>, table |-> FALSE, rows |-> <<>>]

\* a database under the chosen name whose observations table holds one row
OldDatabase ==
    [kind |-> "db", text |-> <<>>, table |-> TRUE,
     rows |-> <<[name \in ColumnNames |-> Str(<<"o">>)]>>]

\* the kind of file an extension makes
KindOf(ext) == IF ext = "sqlite" THEN "db" ELSE "text"

\* the extensions export_table has a branch for
Supported == {"csv", "txt", "sqlite"}

\* the extension of the name typed in the dialog: a supported one, or another
Extensions == Supported \cup {"xls"}

\* no write fails; or the write of data row k (from 0) raises
NoFault == <<>>

FaultAt(k) == <<k>>

\* open(file_name, 'w') truncates; the header and the rows before the fault are
\* written and the with block closes the file.  sqlite3: CREATE TABLE is committed
\* at once, the INSERTs only by commit(), which a fault never reaches.  A name with
\* another extension matches no branch: nothing is opened
Destination(d, ext, t, fault) ==
    IF ext \notin Supported THEN d
    ELSE IF ext = "sqlite"
    THEN [kind |-> "db", text |-> <<>>, table |-> TRUE,
          rows |-> IF fault = NoFault THEN d.rows \o InsertedRows(t, rowCount(t))
                   ELSE d.rows]
    ELSE [kind |-> "text", table |-> FALSE, rows |-> <<>>,
          text |-> FileText(ext, t, IF fault = NoFault THEN rowCount(t) ELSE fault[1])]

NoExport ==
    [format |-> "none", failed |-> FALSE, success_box |-> FALSE, before |-> NoDest,
     table |-> EmptyTable, count |-> 0, once |-> NoDest, once_table |-> EmptyTable,
     once_failed |-> FALSE]

InitExport(dests) ==
    /\ dest \in dests
    /\ exported = NoExport

\* OutputReader.run handles one line of the decoder: decode, strip, and emit when
\* the text is not empty and holds no 'CellId'
ReaderHandles(line) ==
    /\ Len(taken) < MaxEmits
    /\ taken' = Append(taken, Bytes(line))
    /\ LET text == DecodedLine(Bytes(line)).text
       IN  IF text # <<>> /\ ~Contains(text, Marker)
           THEN /\ emitted' = Append(emitted, text)
                /\ events' = events \o PostedBy(text)
           ELSE UNCHANGED <<emitted, events>>
    /\ UNCHANGED <<command, proc, gen, pending, yielded, launches>>
    /\ UNCHANGED <<tableVars, storeVars, replayVars, exportVars, observed>>

\* what is remembered of an export_table call: the call itself, and the first call
Observation(ext, fault, before, after, t) ==
    [format |-> ext, failed |-> fault # NoFault, success_box |-> fault = NoFault,
     before |-> before, table |-> t, count |-> exported.count + 1,
     once |-> IF exported.count = 0 THEN after ELSE exported.once,
     once_table |-> IF exported.count = 0 THEN t ELSE exported.once_table,
     once_failed |-> IF exported.count = 0 THEN fault # NoFault ELSE exported.once_failed]

\* IMSIMAP.export_table with the file name chosen in the dialog, the same name at
\* every call; an exception leaves the function before the 'Success' message box
ExportTable(ext, fault) ==
    /\ pc[1] = "idle"
    /\ exported.count < MaxExports
    /\ exported.format \in {"none", ext}
    /\ ext \in Supported => dest.kind \in {"none", KindOf(ext)}
    /\ ext \notin Supported => fault = NoFault
    /\ dest' = Destination(dest, ext, imsi_table, fault)
    /\ exported' = Observation(ext, fault, dest, dest', imsi_table)
    /\ UNCHANGED <<tableVars, storeVars, replayVars, procVars, sessionVars>>

\* the texts a field takes: plain, with the delimiters, with blanks around it,
\* numeric, not numeric, empty, with a quote
FieldTexts ==
    { <<"a">>, <<"a", ",", "b">>, <<"a", "\t", "b">>, <<" ", "a">>, <<"a", " ">>,
      <<"7">>, <<>>, <<"a", "\"", "b">> }

\* the decoder's line: the counter, then the 11 fields of the record
RecordFields ==
    << <<"1">>, <<"t">>, <<"u">>, <<"i">>, <<"c">>, <<"b">>, <<"o">>,
       <<"2">>, <<"3">>, <<"4">>, <<"5">>, <<"s">> >>

\* the line with field k replaced
LineWith(k, text) == Join([RecordFields EXCEPT ![k] = text], <<";">>)

\* lines of 12 fields, and one of 7 fields, which leaves 5 cells without item
ExportLines ==
    {LineWith(k, text) : k \in {2, 9, 12}, text \in FieldTexts}
        \cup {Plain(MinSemis)}

\* the faults a table of n rows allows
Faults(n) == {NoFault} \cup {FaultAt(k) : k \in 0..(n - 1)}

\* the reader's lines reach the table, and the user exports it
NextExport ==
    \/ \E line \in ExportLines : ReaderHandles(line)
    \/ DeliverAppend
    \/ DeliverUpdate
    \/ \E ext \in Extensions : \E fault \in Faults(rowCount(imsi_table)) :
           ExportTable(ext, fault)

(***************************************************************************)
(* Specifications.                                                         *)
(***************************************************************************)
\* the Record Parser and the Live Table of one instance
\* the application as it starts: one window, no file, no command worth reading
InitApplication ==
    /\ InitTable
    /\ InitStore({1}, NoFile)
    /\ InitReplay({1})
    /\ InitProc({NoCommand})
    /\ InitSession
    /\ InitExport({NoDest})

SpecTable == InitApplication /\ [][NextTable]_vars

\* one window, the file absent or left by an earlier run
InitOneWriter ==
    /\ InitTable
    /\ \E file \in {NoFile, FileOf(OldDoc)} : InitStore({1}, file)
    /\ InitReplay({1})
    /\ InitProc({NoCommand})
    /\ InitSession
    /\ InitExport({NoDest})

\* the Session Store with one writer
SpecStore == InitOneWriter /\ [][NextStore]_vars

\* the Session Store with one writer whose writes may fail
SpecSaveFault == InitOneWriter /\ [][NextSaveFault]_vars

InitTwoWriters ==
    /\ InitTable
    /\ InitStore({1, 2}, FileOf(OldDoc))
    /\ InitReplay({1, 2})
    /\ InitProc({NoCommand})
    /\ InitSession
    /\ InitExport({NoDest})

\* two application instances on the same working directory
SpecRace == InitTwoWriters /\ [][NextStore]_vars

\* the reader thread about to call runProcess, over every command
InitSupervisor ==
    /\ InitTable
    /\ InitStore({1}, NoFile)
    /\ InitReplay({1})
    /\ InitProc(Commands)
    /\ InitSession
    /\ InitExport({NoDest})

\* runProcess iterated to its end by its caller
SpecRunProcess == InitSupervisor /\ [][NextRunProcess]_vars

\* OutputReader.run over runProcess
SpecReader == InitSupervisor /\ [][NextReader]_vars

\* the pipeline's consumer side in one window
SpecSession == InitApplication /\ [][NextSession]_vars

\* the delivery of emitted lines to the slots of output_signal
SpecDelivery == InitApplication /\ [][NextDelivery]_vars

\* one window whose export goes to a new name or over an earlier export
InitDestination ==
    /\ InitTable
    /\ InitStore({1}, NoFile)
    /\ InitReplay({1})
    /\ InitProc({NoCommand})
    /\ InitSession
    /\ InitExport({NoDest, OldFile, OldDatabase})

\* the pipeline from the decoder's line to the exported file
SpecExport == InitDestination /\ [][NextExport]_vars

\* the reader thread and stop_capture
SpecStop == InitSupervisor /\ [][NextStop]_vars

\* one window over a file with one stored session of any shape
InitStoredSession ==
    /\ InitTable
    /\ \E session \in StoredSessions : InitStore({1}, FileOf(<<Pair(OldKey, session)>>))
    /\ InitReplay({1})
    /\ InitProc({NoCommand})
    /\ InitSession
    /\ InitExport({NoDest})

\* Replay over a stored session of any shape
SpecReplay == InitStoredSession /\ [][NextReplay]_vars

(***************************************************************************)
(* Claims about the Record Parser and the Live Table.                      *)
(***************************************************************************)
\* the number of semicolons of a line, counted by position
SemicolonCount(line) == Cardinality({i \in 1..Len(line) : line[i] = ";"})

\* the line holds the six letters CellId in a row
HasHeaderMarker(line) ==
    \E i \in 1..Len(line) :
        /\ i + 5 <= Len(line)
        /\ line[i] = "C" /\ line[i + 1] = "e" /\ line[i + 2] = "l"
        /\ line[i + 3] = "l" /\ line[i + 4] = "I" /\ line[i + 5] = "d"

RecordBearing(line) == SemicolonCount(line) >= 6 /\ ~HasHeaderMarker(line)

\* field k (from 1) of a semicolon-separated line, empty when the line has fewer fields
FieldOf(line, k) ==
    LET idx == {i \in 1..Len(line) :
                   /\ line[i] # ";"
                   /\ Cardinality({j \in 1..i : line[j] = ";"}) = k - 1}
    IN  IF idx = {} THEN <<>>
        ELSE SubSeq(line, CHOOSE i \in idx : \A j \in idx : i <= j,
                          CHOOSE i \in idx : \A j \in idx : j <= i)

\* the lines of a text, by position of its newlines
LineOf(text, k) ==
    LET idx == {i \in 1..Len(text) :
                   /\ text[i] # "\n"
                   /\ Cardinality({j \in 1..i : text[j] = "\n"}) = k - 1}
    IN  IF idx = {} THEN <<>>
        ELSE SubSeq(text, CHOOSE i \in idx : \A j \in idx : i <= j,
                          CHOOSE i \in idx : \A j \in idx : j <= i)

LineCount(text) == Cardinality({i \in 1..Len(text) : text[i] = "\n"}) + 1

\* C1: a line delivered to the table (update_table on the live table, populate_table
\* on a stored log) appends one row if and only if it has at least 6 semicolons and
\* does not contain "CellId"; any other line leaves the table exactly as it was.
C1_RowIffRecordBearing ==
    /\ last_call.op = "update_table" =>
          /\ last_call.result = imsi_table
          /\ IF RecordBearing(last_call.arg)
             THEN /\ rowCount(imsi_table) = rowCount(last_call.before) + 1
                  /\ Len(imsi_table.items) = Len(last_call.before.items) + 11
                  /\ SubSeq(imsi_table.items, 1, Len(last_call.before.items))
                        = last_call.before.items
             ELSE imsi_table = last_call.before
    /\ last_call.op = "populate_table" =>
          LET logs == last_call.arg
              kept == {k \in 1..LineCount(logs) : RecordBearing(LineOf(logs, k))}
          IN  /\ rowCount(last_call.result) = Cardinality(kept)
              /\ Len(last_call.result.items) = 11 * Cardinality(kept)
              /\ kept = {} => last_call.result = EmptyTable

\* C1 witness: a header line with 6 or more semicolons was delivered to a non-empty
\* live table and skipped.
C1_Witness ==
    /\ last_call.op = "update_table"
    /\ HasHeaderMarker(last_call.arg)
    /\ SemicolonCount(last_call.arg) >= 6
    /\ rowCount(last_call.before) >= 1
    /\ imsi_table = last_call.before

\* C2: for a record-bearing line update_table drops the first field and stores field
\* k+1 in column k (k = 0..10) of one new last row; missing trailing cells read back
\* as the empty string, fields beyond the 11th are ignored, earlier rows are unchanged;
\* the sample line of the specification gives the sample row.
C2_FieldsToColumns ==
    (last_call.op = "update_table" /\ RecordBearing(last_call.arg)) =>
        LET r == rowCount(last_call.before)
        IN  /\ rowCount(imsi_table) = r + 1
            /\ Len(imsi_table.items) = 11 * (r + 1)
            /\ SubSeq(imsi_table.items, 1, 11 * r) = last_call.before.items
            /\ \A k \in 0..10 : CellText(imsi_table, r, k) = FieldOf(last_call.arg, k + 2)
            /\ last_call.arg = ExampleLine => RowTexts(imsi_table, r) = ExampleRow

\* C2 witness: a line with more than 12 fields was appended below an earlier row.
C2_Witness ==
    /\ last_call.op = "update_table"
    /\ RecordBearing(last_call.arg)
    /\ SemicolonCount(last_call.arg) > 11
    /\ rowCount(last_call.before) >= 1
    /\ rowCount(imsi_table) = rowCount(last_call.before) + 1


(***************************************************************************)
(* Claims about the Session Store.                                         *)
(***************************************************************************)
SavedKeys == {save_log[i].key : i \in 1..Len(save_log)}

\* the value of the most recent completed save under a key
LastSaved(key) ==
    LET idx == {i \in 1..Len(save_log) : save_log[i].key = key}
    IN  save_log[CHOOSE i \in idx : \A j \in idx : j <= i].value

\* C3: with a single writer, once a save_all has returned the stored document maps
\* every key ever saved to the value of the most recent save under it, keeps every
\* other key as it was, and holds one entry per key (two saves of the same minute
\* share one entry, holding the second save's value).
C3_MostRecentSavePerKey ==
    pc[1] = "idle" =>
        LET r == load_scan_data(disk)
        IN  /\ r.ok
            /\ Keys(r.doc) = SavedKeys
            /\ Len(r.doc) = Cardinality(SavedKeys)
            /\ \A key \in SavedKeys : Lookup(r.doc, key) = LastSaved(key)

\* C3 witness: two saves fell in the same minute with different values; the document
\* holds the second one under that key and still the older session under its key.
C3_Witness ==
    /\ pc[1] = "idle"
    /\ \E i, j \in 1..Len(save_log) :
          /\ i < j
          /\ save_log[i].window = 1 /\ save_log[j].window = 1
          /\ save_log[i].key = save_log[j].key
          /\ save_log[i].value # save_log[j].value
          /\ Lookup(load_scan_data(disk).doc, save_log[j].key) = save_log[j].value
    /\ Lookup(load_scan_data(disk).doc, OldKey) = OldDoc[1].value

\* C4 (as claimed): whenever no save is running, also after a save failed part-way,
\* the file is a complete snapshot: load_scan_data succeeds and returns the document
\* as it was before the last save or as that save meant to write it.
C4_SnapshotSurvivesFailedSave ==
    pc[1] = "idle" =>
        LET r == load_scan_data(disk)
        IN  /\ r.ok
            /\ r.doc = snapshot.before \/ r.doc = snapshot.after

\* C5 (as claimed): once both writers are back at rest the file decodes and the
\* document is the whole mapping one of the writers wrote (the last one to save),
\* never a mix of what the two wrote.
C5_WholeMappingOfAWriter ==
    ((\A w \in DOMAIN pc : pc[w] = "idle") /\ save_log[Len(save_log)].window # 0) =>
        LET r == load_scan_data(disk)
        IN  /\ r.ok
            /\ \E i \in 1..Len(save_log) :
                  save_log[i].window # 0 /\ r.doc = save_log[i].doc

\* C5: the lost update itself: both writers saved under different keys, both are at
\* rest, the file decodes, and the key of one of them is gone.
C5_LostUpdateReached ==
    /\ \A w \in DOMAIN pc : pc[w] = "idle"
    /\ load_scan_data(disk).ok
    /\ \E i \in 1..Len(save_log) :
          /\ save_log[i].window # 0
          /\ save_log[i].key \notin Keys(load_scan_data(disk).doc)


(***************************************************************************)
(* Claims about Replay.                                                    *)
(***************************************************************************)
IsDigitChar(c) == c \in {"0", "1", "2", "3", "4", "5", "6", "7", "8", "9"}

\* the text reads as a decimal number: an optional sign, digits, at most one point
NumericText(text) ==
    LET t == Strip(text)
        b == IF t # <<>> /\ t[1] \in {"+", "-"} THEN Tail(t) ELSE t
    IN  /\ \A i \in 1..Len(b) : IsDigitChar(b[i]) \/ b[i] = "."
        /\ \E i \in 1..Len(b) : IsDigitChar(b[i])
        /\ Count(b, ".") <= 1

BadParam(v) == v = Absent \/ v = Null \/ (IsStr(v) /\ ~NumericText(v.str))

BadSession(session) ==
    BadParam(session.frequency) \/ BadParam(session.gain) \/ BadParam(session.ppm)

ConfigurationUnchanged ==
    /\ grgsm_instance[1] = replay.config_before
    /\ widgets[1] = replay.widgets_before

\* C6: a repeat_scan over a stored session whose frequency, gain or ppm is absent,
\* null or not numeric ends in the error outcome, leaves fc, gain, ppm and the three
\* widgets as they were and starts no capture; the configuration differs from the one
\* before the replay only when none of the three values was bad.
C6_BadSessionLeavesConfiguration ==
    replay.fresh =>
        /\ BadSession(replay.session) =>
              /\ replay.error
              /\ ConfigurationUnchanged
              /\ captures[1] = replay.captures_before
              /\ output_text_edit[1] = replay.log_before
        /\ ~ConfigurationUnchanged => ~BadSession(replay.session)

\* a replay of a session whose gain is the text "high" has ended in the error outcome
C6_Witness ==
    /\ replay.fresh
    /\ replay.error
    /\ replay.session.gain = Str(<<"h", "i", "g", "h">>)
    /\ IsNum(replay.session.frequency)
    /\ IsNum(replay.session.ppm)

EntryUnder(file, key) == SessionOf(load_scan_data(file).doc, key)

\* C7: a repeat_scan leaves the file, and with it the entry stored under the replayed
\* key, as it was before the first replay; every replay that does not fail starts one
\* capture of its own with the stored frequency, so two replays of one key start two.
C7_ReplayLeavesStoredEntry ==
    replay.count > 0 =>
        /\ disk = replay.file_first
        /\ EntryUnder(disk, OldKey) = EntryUnder(replay.file_first, OldKey)
        /\ replay.selected # 0 => EntryUnder(disk, OldKey) = replay.session
        /\ replay.fresh /\ ~replay.error =>
              /\ captures[1] = replay.captures_before + 1
              /\ grgsm_instance[1].fc = ToInt(replay.session.frequency).value.num
              /\ output_text_edit[1] # <<>>
        /\ replay.streak <= captures[1]

\* the same key has been replayed twice, and two captures were started
C7_Witness ==
    /\ replay.fresh
    /\ replay.count = 2
    /\ replay.streak = 2
    /\ replay.selected = 1
    /\ captures[1] = 2

(***************************************************************************)
(* Claims about the process supervisor.                                    *)
(***************************************************************************)
HasPrefix(text, prefix) ==
    Len(text) >= Len(prefix) /\ SubSeq(text, 1, Len(prefix)) = prefix

IsExceptionLine(e) == IsStr(e) /\ HasPrefix(e.str, ExceptionPrefix)

IsErrorLine(e) == IsStr(e) /\ HasPrefix(e.str, ErrorPrefix)

ErrorLineCount == Cardinality({i \in 1..Len(yielded) : IsErrorLine(yielded[i])})

\* C8: when the command cannot be launched, runProcess yields one element, a line
\* "Exception: <description>", never a second one, starts no subprocess, and no
\* exception leaves the generator.
C8_LaunchFailureYieldsOneLine ==
    ~command.launchable =>
        /\ gen.pc # "raised"
        /\ ~proc.started
        /\ Len(yielded) <= 1
        /\ gen.pc # "start" => /\ Len(yielded) = 1
                                /\ IsExceptionLine(yielded[1])
                                /\ yielded[1].str = ExceptionPrefix \o LaunchErrorText

\* the generator of a command that does not launch has ended after its one line
C8_Witness ==
    /\ ~command.launchable
    /\ gen.pc = "done"
    /\ pending = <<>>
    /\ Len(yielded) = 1

\* C9: every line runProcess made up itself ("Exception: ..." or "Error: ...") that
\* OutputReader.run has finished handling has been emitted on output_signal.
C9_SyntheticLinesEmitted ==
    \A i \in 1..Len(taken) :
        IsStr(taken[i]) => \E j \in 1..Len(emitted) : emitted[j] = Strip(taken[i].str)

HasContent(stderr) == stderr # <<>>

HasText(stderr) == \E i \in 1..Len(stderr) : stderr[i] \notin Whitespace \cup {InvalidByte}

\* C10 as stated: once the subprocess has exited and runProcess has ended, an error
\* stream with content has given exactly one "Error: ..." line, the last element.
C10_ErrorLineForAnyContent ==
    (gen.pc = "done" /\ proc.exited /\ HasContent(command.stderr)) =>
        /\ ErrorLineCount = 1
        /\ IsErrorLine(yielded[Len(yielded)])

\* C10: nothing is yielded after an "Error: ..." line; once runProcess has ended over
\* a subprocess that exited with a code other than 0 and left text other than white
\* space on its error stream, exactly one "Error: <stderr text>" line was yielded, as
\* the last element and after every stdout line; after any other exit there is none.
C10_ErrorLineAfterFailedExit ==
    /\ \A i \in 1..Len(yielded) : IsErrorLine(yielded[i]) => i = Len(yielded)
    /\ (gen.pc = "done" /\ proc.exited) =>
          IF command.retcode # 0 /\ HasText(command.stderr)
          THEN /\ ErrorLineCount = 1
               /\ yielded[Len(yielded)] = Str(ErrorPrefix \o Strip(command.stderr))
               /\ \A i \in 1..(Len(yielded) - 1) : IsBytes(yielded[i])
          ELSE ErrorLineCount = 0

\* a subprocess that wrote two lines and failed with text on its error stream has
\* been read to its end
C10_Witness ==
    /\ gen.pc = "done"
    /\ proc.exited
    /\ command.retcode # 0
    /\ HasText(command.stderr)
    /\ Len(command.script) = 2
    /\ Len(yielded) >= 3
    /\ IsErrorLine(yielded[Len(yielded)])

\* output_reader.start(): the one start request an application instance makes
StartRequests == 1

\* C11: across a run the command is launched at most as often as a start was
\* requested: once runProcess has ended, the reader does not call it again.
C11_NoLaunchWithoutRequest == launches <= StartRequests

(***************************************************************************)
(* Claims about stop, sessions and the consumer side.                      *)
(***************************************************************************)
\* C12: when stop_capture has returned, a decoder subprocess that had been started
\* has exited.
C12_StopAwaitsSubprocess ==
    (observed.stops > 0 /\ observed.proc_started) => observed.proc_exited

HasSuffix(text, suffix) ==
    Len(text) >= Len(suffix)
    /\ SubSeq(text, Len(text) - Len(suffix) + 1, Len(text)) = suffix

\* the Logs text just after start_capture: nothing follows its "Capture started" line
JustStarted == HasSuffix(output_text_edit[1], CaptureStartedText \o <<"\n">>)

\* C13: immediately after a session start the Live Table has no rows.
C13_TableEmptyAfterStart == JustStarted => rowCount(imsi_table) = 0

\* the lines whose update_table call has run, and the record-bearing ones among them
Updated == SubSeq(emitted, 1, observed.updates)

UpdatedRecords == SelectSeq(Updated, RecordBearing)

\* C14: the update_table calls run one after the other in the order of the emits:
\* the rows of the Live Table are, in order, the record-bearing lines among the lines
\* whose call has run, each row complete, and the calls still posted are those of the
\* lines emitted after them.
C14_RowsInEmitOrder ==
    /\ observed.updates <= Len(emitted)
    /\ rowCount(imsi_table) = Len(UpdatedRecords)
    /\ Len(imsi_table.items) = 11 * Len(UpdatedRecords)
    /\ \A r \in 1..Len(UpdatedRecords) : \A k \in 0..10 :
          CellText(imsi_table, r - 1, k) = FieldOf(UpdatedRecords[r], k + 2)
    /\ SelectSeq(events, LAMBDA e : e.slot = "update_table")
          = [i \in 1..(Len(emitted) - observed.updates) |->
                [slot |-> "update_table", line |-> emitted[observed.updates + i]]]

\* two different record-bearing lines were emitted and both calls have run
C14_Witness ==
    /\ Len(emitted) = 2
    /\ observed.updates = 2
    /\ RecordBearing(emitted[1])
    /\ RecordBearing(emitted[2])
    /\ emitted[1] # emitted[2]
    /\ rowCount(imsi_table) = 2

\* C15: at the moment a session is saved (add_new_scan has read the Logs text and
\* save_all has not returned), with every emitted line handled by both slots, the
\* parser run over the saved text gives the rows of the Live Table, cell by cell.
C15_TableRederivableFromLog ==
    (pc[1] \in {"loaded", "writing"} /\ events = <<>>)
        => populate_table(output_text_edit[1]) = imsi_table

\* the lines of a text
LinesOf(text) == {LineOf(text, i) : i \in 1..LineCount(text)}

\* the index of the last "Capture started" line of a text, 0 when there is none
LastStartLine(text) ==
    LET idx == {i \in 1..LineCount(text) : LineOf(text, i) = Tail(CaptureStartedText)}
    IN  IF idx = {} THEN 0 ELSE CHOOSE i \in idx : \A j \in idx : j <= i

\* the lines appended to the Logs text after the run's start
RunLines(text) ==
    {LineOf(text, i) : i \in (LastStartLine(text) + 1)..LineCount(text)} \ {<<>>}

\* C16: when a run that began with a save has been closed by stop_capture, every line
\* appended to the Logs text during the run is in the log stored under the run's key.
C16_StoredLogHoldsRun ==
    (observed.stops > 0 /\ observed.run > 0 /\ observed.run = captures[1]) =>
        RunLines(observed.log_at_stop)
            \subseteq LinesOf(EntryUnder(disk, save_log[Len(save_log)].key).logs.str)

\* the table column of each Record field, by header_labels (from 0)
FieldColumn ==
    [stamp |-> 10, tmsi1 |-> 0, tmsi2 |-> 1, imsi |-> 2, imsicountry |-> 3,
     imsibrand |-> 4, imsioperator |-> 5, mcc |-> 6, mnc |-> 7, lac |-> 8, cell |-> 9]

\* export_table has returned normally for a file of this extension
ExportDone(ext) == exported.format = ext /\ ~exported.failed

\* the rows the export added to the observations table
NewRows == SubSeq(dest.rows, Len(exported.before.rows) + 1, Len(dest.rows))

\* C17: after a .sqlite export the observations table exists and holds one new row
\* per table row, and each schema column holds the Record field of its name
\* (Timestamp in stamp, TMSI-1 in tmsi1, ..., CellId in cell), as SQLite stores it.
C17_FieldsInOwnColumns ==
    ExportDone("sqlite") =>
        /\ dest.table
        /\ Len(NewRows) = rowCount(exported.table)
        /\ \A r \in 1..Len(NewRows) : \A name \in ColumnNames :
               NewRows[r][name] =
                   Affinity(Schema[Position(name)].affinity,
                            BoundValues(exported.table, r - 1)[FieldColumn[name] + 1])

NumericColumns == {"mcc", "mnc", "lac", "cell"}

\* C18: after a .sqlite export every value in the columns mcc, mnc, lac and cell is a
\* number or the null marker, never a text.
C18_NumberOrNull ==
    ExportDone("sqlite") =>
        \A r \in 1..Len(NewRows) : \A name \in NumericColumns :
            NewRows[r][name] = Null \/ IsNum(NewRows[r][name])

\* what a complete export of the same table to the same name leaves
CompleteExport ==
    Destination(exported.before, exported.format, exported.table, NoFault)

\* C19: when a write fails after k of n rows, success is not reported and the
\* destination holds the complete export or what it held before.
C19_AllOrNothing ==
    (exported.format # "none" /\ exported.failed) =>
        /\ ~exported.success_box
        /\ dest \in {exported.before, CompleteExport}

\* csv.reader, default dialect: the index of the quote that closes a field opened
\* by the quote at index 1 (a quote not followed by a second one), 0 when none does
ClosingQuote(text) ==
    LET ends == {j \in 2..Len(text) :
                    /\ text[j] = "\""
                    /\ Cardinality({i \in 2..j : text[i] = "\""}) % 2 = 1
                    /\ (j = Len(text) \/ text[j + 1] # "\"")}
    IN  IF ends = {} THEN 0 ELSE CHOOSE j \in ends : \A k \in ends : j <= k

RECURSIVE Undouble(_)
\* the content of a quoted field: two quotes stand for one
Undouble(text) ==
    IF text = <<>> THEN <<>>
    ELSE IF Head(text) = "\"" /\ Len(text) > 1 /\ text[2] = "\""
    THEN <<"\"">> \o Undouble(Tail(Tail(text)))
    ELSE <<Head(text)>> \o Undouble(Tail(text))

\* the index of the first comma at or after index from, 0 when there is none
NextComma(text, from) ==
    LET idx == {i \in from..Len(text) : text[i] = ","}
    IN  IF idx = {} THEN 0 ELSE CHOOSE i \in idx : \A k \in idx : i <= k

RECURSIVE CsvFields(_)
\* the first field of a record: quoted up to its closing quote, then as written up to
\* the next comma; and the fields after that comma
CsvFieldsFrom(text, close, comma) ==
    LET stop  == IF comma = 0 THEN Len(text) + 1 ELSE comma
        field == (IF close > 0 THEN Undouble(SubSeq(text, 2, close - 1)) ELSE <<>>)
                 \o SubSeq(text, close + 1, stop - 1)
    IN  IF comma = 0 THEN <<field>>
        ELSE <<field>> \o CsvFields(SubSeq(text, comma + 1, Len(text)))

\* csv.reader with the default dialect on one record (not empty, without its line
\* end): its fields, in order
CsvFields(text) ==
    IF text # <<>> /\ text[1] = "\""
    THEN IF ClosingQuote(text) = 0 THEN <<Undouble(Tail(text))>>
         ELSE CsvFieldsFrom(text, ClosingQuote(text), NextComma(text, ClosingQuote(text) + 1))
    ELSE CsvFieldsFrom(text, 0, NextComma(text, 1))

\* the lines of an exported text, without their '\n'; the piece after the last '\n'
\* is empty.  No field of the pipeline holds a line break, so a record is a line
FileLines(text) == Split(text, "\n")

\* a line of the .csv file without the '\r' of its '\r\n'
WithoutCr(line) ==
    IF line # <<>> /\ line[Len(line)] = "\r" THEN SubSeq(line, 1, Len(line) - 1) ELSE line

\* line k of the exported text read again with the delimiter of its format
ReadBack(ext, text, k) ==
    IF ext = "csv" THEN CsvFields(WithoutCr(FileLines(text)[k]))
    ELSE Split(FileLines(text)[k], "\t")

\* the fields 2 .. 12 of a line
TrailingFields(line) == Tail(Split(line, ";"))

\* C20: after a .csv or .txt export, for every table row that came from a line of 12
\* fields, the data row read back from the file is the line's fields 2 .. 12 in order.
C20_RoundTrip ==
    (ExportDone("csv") \/ ExportDone("txt")) =>
        \A r \in 1..rowCount(exported.table) :
            Len(Split(taken[r].bytes, ";")) = 12 =>
                /\ Len(FileLines(dest.text)) > r + 1
                /\ ReadBack(exported.format, dest.text, r + 1) = TrailingFields(taken[r].bytes)

\* the stdout lines among the elements runProcess yielded (b'' marks the end of the
\* stream and is no line)
StdoutLines(elements) == SelectSeq(elements, LAMBDA e : IsBytes(e) /\ e.bytes # <<>>)

\* the lines the subprocess wrote to standard output before it exited
WrittenLines == [i \in 1..Len(command.script) |-> Bytes(command.script[i])]

\* C21: once the subprocess has exited and runProcess has ended, the stdout lines it
\* yielded are the lines the subprocess wrote, all of them and in order.
C21_NoOutputLost ==
    (gen.pc = "done" /\ proc.exited) => StdoutLines(yielded) = WrittenLines

\* the keys the Scans list of window w shows
ListedKeys(w) == {scan_model[w][i].timestamp : i \in 1..Len(scan_model[w])}

\* C22: whenever add_new_scan is not running, the Scans list has exactly one entry
\* per key of the stored document and no entry for a key that is not stored.
C22_ListMatchesStore ==
    pc[1] = "idle" =>
        /\ ListedKeys(1) = Keys(load_scan_data(disk).doc)
        /\ Len(scan_model[1]) = Cardinality(Keys(load_scan_data(disk).doc))

\* C23: the 'Table exported successfully' box is shown only when the name has one of
\* the three supported extensions and the destination holds the complete export of
\* the table.
C23_SuccessOnlyAfterWrite ==
    exported.success_box =>
        /\ exported.format \in Supported
        /\ dest = CompleteExport

\* C24: two exports of the same unchanged table to the same name, neither failing,
\* leave the destination as the first export left it.
C24_ExportIdempotent ==
    (/\ exported.count = 2
     /\ ~exported.failed
     /\ ~exported.once_failed
     /\ exported.table = exported.once_table) => dest = exported.once

========================================================================
